---- MODULE Spec2Model ----
(***************************************************************************)
(* Model of QuantEcon/workflow-backups: the backup orchestrator            *)
(* (BackupManager), the S3 uploader (S3Handler), the repository matcher    *)
(* (RepoMatcher) and the command entry point (main.run_backup).            *)
(* Everything the program talks to (GitHub, git, tar, S3, the local disk,  *)
(* the UTC clock) is an environment whose answers are drawn with \E.       *)
(***************************************************************************)
EXTENDS Integers, Sequences, FiniteSets, TLC

\* ------------------------------------------------------------------ bounds
MaxRuns == 2
MaxDay == 2
MaxSize == 2
MaxItems == 3

Days == 1..MaxDay
Sizes == 1..MaxSize

\* ------------------------------------------------------------ environment
\* The organization's repositories as GitHub lists them.  A name is a
\* sequence of characters.
OrgRepos ==
  << [name |-> <<"q", "a">>, archived |-> FALSE],
     [name |-> <<"q", "b">>, archived |-> TRUE] >>

\* Matcher configurations a config file can hold (RepoMatcher.__init__).
\* A pattern is a literal regular expression, written as its characters.
MatcherConfigs ==
  { [patterns |-> {<<"q">>}, repositories |-> {}, exclude_archived |-> FALSE,
     exclude_patterns |-> {}, exclude_repositories |-> {}],
    [patterns |-> {<<"q">>}, repositories |-> {}, exclude_archived |-> TRUE,
     exclude_patterns |-> {}, exclude_repositories |-> {}],
    [patterns |-> {}, repositories |-> {<<"q", "b">>, <<"z">>},
     exclude_archived |-> FALSE,
     exclude_patterns |-> {}, exclude_repositories |-> {}],
    [patterns |-> {<<"q">>}, repositories |-> {<<"q", "a">>},
     exclude_archived |-> FALSE,
     exclude_patterns |-> {<<"q", "a">>}, exclude_repositories |-> {}] }

\* Answers of an s3_client call (head_object, upload_file, the listing):
\* "ok": storage answers, and for head_object the answer is the object or
\* "not found" (which botocore delivers as a ClientError with code 404);
\* "client_error": any other botocore ClientError (access denied, ...);
\* "error": anything else is raised (no credentials, no connection, ...).
S3Outcomes == {"ok", "client_error", "error"}
\* Answers of a subprocess (git clone, tar) and of other fallible steps.
StepOutcomes == {"ok", "failed"}

Range(s) == {s[k] : k \in 1..Len(s)}

\* ---------------------------------------------------------------- matcher
\* (mutant) re.Pattern.search: matched anywhere in the name
PatternSearch(p, n) ==
  \E a \in 1..(Len(n) - Len(p) + 1) : SubSeq(n, a, a + Len(p) - 1) = p

\* re.Pattern.match for a literal pattern: matched at the start of the name.
PatternMatch(p, n) == Len(p) <= Len(n) /\ SubSeq(n, 1, Len(p)) = p

Matches(m, n) ==
  \/ n \in m.repositories
  \/ \E p \in m.patterns : PatternMatch(p, n)

\* (mutant) the exclude patterns are not consulted
IsExcludedByNameOnly(m, n) == n \in m.exclude_repositories

IsExcluded(m, n) ==
  \/ n \in m.exclude_repositories
  \/ \E p \in m.exclude_patterns : PatternMatch(p, n)

RECURSIVE SelectSeq2(_, _, _)
\* list comprehension [x for x in s if keep(x)] for a set keep of elements
SelectSeq2(s, keep, k) ==
  IF k > Len(s) THEN << >>
  ELSE (IF s[k] \in keep THEN <<s[k]>> ELSE << >>) \o SelectSeq2(s, keep, k + 1)

\* (mutant) the exclusions are not applied
FilterIgnoresExclusions(m, all) ==
  LET live == IF m.exclude_archived
              THEN SelectSeq2(all, {r \in Range(all) : ~r.archived}, 1)
              ELSE all
      matched == SelectSeq2(live, {r \in Range(live) : Matches(m, r.name)}, 1)
  IN [k \in 1..Len(matched) |-> matched[k].name]

FilterRepositories(m, all) ==
  LET live == IF m.exclude_archived
              THEN SelectSeq2(all, {r \in Range(all) : ~r.archived}, 1)
              ELSE all
      matched == SelectSeq2(live, {r \in Range(live) : Matches(m, r.name)}, 1)
      kept == IF m.exclude_patterns # {} \/ m.exclude_repositories # {}
              THEN SelectSeq2(matched,
                     {r \in Range(matched) : ~IsExcluded(m, r.name)}, 1)
              ELSE matched
  IN [k \in 1..Len(kept) |-> kept[k].name]

\* filter_repositories, lines 157-166: the exact names warned about as not
\* found; found_names is built from all_repos, which line 135 has already
\* replaced by the non-archived repositories when exclude_archived is set
NotFound(m, all) ==
  LET live == IF m.exclude_archived
              THEN SelectSeq2(all, {r \in Range(all) : ~r.archived}, 1)
              ELSE all
  IN m.repositories \ {live[k].name : k \in 1..Len(live)}

\* Inputs of the matcher taken on its own: repository names, the lists an
\* organization can hold, and the configurations of RepoMatcher.__init__.
RepoNames == {<<"q">>, <<"q", "a">>, <<"a", "q">>, <<"n">>}

OrgLists ==
  { << >>,
    << [name |-> <<"q", "b">>, archived |-> FALSE],
       [name |-> <<"a", "q">>, archived |-> TRUE],
       [name |-> <<"q", "a">>, archived |-> FALSE],
       [name |-> <<"q">>, archived |-> FALSE] >>,
    << [name |-> <<"q", "a">>, archived |-> TRUE],
       [name |-> <<"z">>, archived |-> FALSE],
       [name |-> <<"a", "q">>, archived |-> FALSE] >> }

MatcherInputs ==
  [patterns : SUBSET {<<"q">>, <<"z", "z">>},
   repositories : SUBSET {<<"a", "q">>, <<"n">>},
   exclude_archived : BOOLEAN,
   exclude_patterns : SUBSET {<<"q", "a">>},
   exclude_repositories : SUBSET {<<"a", "q">>, <<"q", "b">>}]

\* ------------------------------------------------------------- S3Handler
\* S3Handler.__init__ normalises the prefix; the default is "backups/".
Prefix == "backups/"

\* full_key = f"{self.prefix}{object_key}"
FullKey(object_key) == [prefix |-> Prefix, key |-> object_key]

\* backup_key = f"{repo.name}/{repo.name}-{date_str}.tar.gz"
BackupKey(name, date) == [dir |-> name, file |-> name, kind |-> "tar.gz", date |-> date]

\* issues_key = f"{repo.name}/{repo.name}-issues-{date_str}.json"
IssuesKey(name, date) == [dir |-> name, file |-> name, kind |-> "issues.json", date |-> date]

\* (mutant) the probe looks the key up without the prefix
ProbeUnprefixed(object_key) == [prefix |-> "", key |-> object_key]

\* backup_exists line 139: full_key = f"{self.prefix}{object_key}"
ProbeFullKey(object_key) == [prefix |-> Prefix, key |-> object_key]

\* (mutant) the probe never reports an existing object
BackupExistsNever(st, object_key, outcome) ==
  IF outcome = "error" THEN "raised" ELSE "false"

\* S3Handler.backup_exists: head_object answered -> True; ClientError of any
\* kind (not found, access denied, ...) -> False; anything else propagates.
BackupExists(st, object_key, outcome) ==
  CASE outcome = "ok" ->
         IF ProbeFullKey(object_key) \in st THEN "true" ELSE "false"
    [] outcome = "client_error" -> "false"
    [] OTHER -> "raised"

\* line 117: local_size = local_file.stat().st_size, the size of the file
\* as it was written
LocalSize == MaxSize

\* (mutant) the sizes are not compared
VerifyUploadNoCompare(head, s3_size, stat, local_size) ==
  CASE head = "ok" /\ stat = "ok" -> "true"
    [] head = "client_error" -> "false"
    [] OTHER -> "raised"

\* S3Handler._verify_upload: "true"/"false", or "raised" when head_object
\* raises something that is not a ClientError or local_file.stat() raises
\* (stat = "failed": the local file cannot be read).
VerifyUpload(head, s3_size, stat, local_size) ==
  CASE head = "ok" /\ stat = "ok" ->
         IF s3_size = local_size THEN "true" ELSE "false"
    [] head = "client_error" -> "false"
    [] OTHER -> "raised"

\* (mutant) an exception of the verification is not caught
UploadFileRaises(transfer, verified) ==
  CASE verified = "raised" -> "raised"
    [] transfer = "ok" /\ verified = "true" -> "true"
    [] OTHER -> "false"

\* S3Handler.upload_file's return value, from the outcome of the transfer
\* and the result of _verify_upload ("none" when it was never called).
UploadFile(transfer, verified) ==
  IF transfer = "ok" /\ verified = "true" THEN "true" ELSE "false"

\* (mutant) the transfer stores nothing
PutNothing(st, full_key) == st

\* s3_client.upload_file on success: the object is stored under full_key.
PutObject(st, full_key) == st \cup {full_key}

\* (mutant) a ClientError of the listing is not caught
ListResultRaises(contents, outcome) ==
  CASE outcome = "ok" -> [raised |-> FALSE, backups |-> contents]
    [] OTHER -> [raised |-> TRUE, backups |-> {}]

\* S3Handler.list_backups, lines 157-175, when the pages of the listing hold
\* contents: the list built from them; [] after a ClientError; anything
\* else is raised.
ListResult(contents, outcome) ==
  CASE outcome = "ok" -> [raised |-> FALSE, backups |-> contents]
    [] outcome = "client_error" -> [raised |-> FALSE, backups |-> {}]
    [] OTHER -> [raised |-> TRUE, backups |-> {}]

\* S3Handler.list_backups: the objects under f"{self.prefix}{repo_name}/",
\* each with the size storage reports.
ListBackups(st, repo_name, outcome, size) ==
  ListResult({[key |-> k, size |-> size] :
                k \in {x \in st : x.prefix = Prefix /\ x.key.dir = repo_name}},
             outcome)

\* (mutant) the listing removes what it lists
ListBackupsDeletes(st, repo_name) == {x \in st : x.key.dir # repo_name}

\* storage after list_backups: get_paginator("list_objects_v2") only reads
AfterListBackups(st, repo_name) == st

\* (mutant) the objects are counted, their sizes not added
CountSizes(backups) == Cardinality(backups)

RECURSIVE SumSizes(_)
\* sum(b["size"] for b in backups)
SumSizes(backups) ==
  IF backups = {} THEN 0
  ELSE LET b == CHOOSE x \in backups : TRUE
       IN b.size + SumSizes(backups \ {b})

RECURSIVE SumTotals(_)
\* report["total_backup_size"], accumulated over the repositories
SumTotals(entries) ==
  IF entries = {} THEN 0
  ELSE LET e == CHOOSE x \in entries : TRUE
       IN e.total_size + SumTotals(entries \ {e})

\* BackupManager.get_backup_report, lines 282-304, for the matched
\* repositories rs, where listed[k] is what list_backups returned for rs[k]
BuildReport(rs, listed) ==
  LET entries == {[repo |-> rs[k], backup_count |-> Cardinality(listed[k]),
                   total_size |-> SumSizes(listed[k]),
                   backups |-> listed[k]] :
                    k \in {x \in 1..Len(rs) : listed[x] # {}}}
  IN [made |-> TRUE, total_repos |-> Len(rs),
      repos_with_backups |-> Cardinality(entries),
      total_backup_size |-> SumTotals(entries),
      repositories |-> entries]

\* BackupManager.get_backup_report for the matched repositories rs, where
\* lo[k] is storage's answer to the listing of rs[k]
GetBackupReport(rs, st, lo, size) ==
  BuildReport(rs, [k \in 1..Len(rs) |->
                     ListBackups(st, rs[k], lo[k], size).backups])

RECURSIVE StorageAfterReport(_, _, _)
\* storage after the listings of rs[k..]
StorageAfterReport(st, rs, k) ==
  IF k > Len(rs) THEN st
  ELSE StorageAfterReport(AfterListBackups(st, rs[k]), rs, k + 1)

\* --------------------------------------------------------- IssuesHandler
\* What repo.get_issues(state="all") lists: issues and pull requests, each
\* with its number, whether it has a pull-request association, and its
\* state.
IssueStates == {"open", "closed"}

\* (mutant) pull requests are kept
KeepsPullRequests(issue) == TRUE

\* issue.pull_request is None
IsIssue(issue) == ~issue.pr

\* IssuesHandler._serialize_issue, as far as number and state
SerializeIssue(issue) == [number |-> issue.number, state |-> issue.state]

RECURSIVE Serialized(_, _)
\* the loop of export_issues: issues_data after the items from k on
Serialized(items, k) ==
  IF k > Len(items) THEN << >>
  ELSE (IF IsIssue(items[k]) THEN <<SerializeIssue(items[k])>> ELSE << >>)
       \o Serialized(items, k + 1)

\* (mutant) every record counts as open
CountsAllAsOpen(issues_data) == Len(issues_data)

\* open_count: one for each record appended with state == "open"
OpenCount(issues_data) ==
  Cardinality({k \in 1..Len(issues_data) : issues_data[k].state = "open"})

\* closed_count: one for each record appended with any other state
ClosedCount(issues_data) ==
  Cardinality({k \in 1..Len(issues_data) : issues_data[k].state # "open"})

RECURSIVE InsertByNumber(_, _)
\* x placed before the first record of the sorted s with a greater number
InsertByNumber(x, s) ==
  IF s = << >> THEN <<x>>
  ELSE IF x.number < Head(s).number THEN <<x>> \o s
       ELSE <<Head(s)>> \o InsertByNumber(x, Tail(s))

\* (mutant) the list is left in listing order
Unsorted(issues_data) == issues_data

RECURSIVE SortByNumber(_)
\* issues_data.sort(key=lambda x: x["number"]), a stable sort
SortByNumber(issues_data) ==
  IF issues_data = << >> THEN << >>
  ELSE InsertByNumber(issues_data[Len(issues_data)],
                      SortByNumber(SubSeq(issues_data, 1, Len(issues_data) - 1)))

\* IssuesHandler.export_issues on the listed items
ExportIssues(items) ==
  LET issues_data == Serialized(items, 1)
      sorted == SortByNumber(issues_data)
  IN [total_issues |-> Len(sorted),
      open_issues |-> OpenCount(issues_data),
      closed_issues |-> ClosedCount(issues_data),
      issues |-> sorted]

\* ----------------------------------------------------------------- state
VARIABLES
  storage,        \* the bucket: the full keys of the stored objects
  today,          \* the current UTC day
  matcher,        \* RepoMatcher built from the configuration file
  pc,             \* where the program is
  issues_on,      \* BackupManager.issues_handler is not None
  skip_existing,  \* argument of backup_repositories
  dry_run,        \* argument of backup_repositories
  repos,          \* the matched repositories (names), in order
  i,              \* index of the repository being processed
  date_str,       \* date read at the start of the iteration
  results,        \* the summary being built
  force,          \* args.force of the command line (FALSE in a direct call)
  temp,           \* temporary artifacts of this iteration still on disk
  it,             \* what the current iteration has done so far
  up,             \* the current / last upload_file call
  prev,           \* summary of the previous run, if it ran within today
  runs,           \* number of commands started
  exit_code,      \* exit code of the last command (-1: none)
  cmd,            \* what the last command read and how far it got
  report,         \* the report built by the last report command
  mc              \* the last call of a method made on its own

vars == <<storage, today, matcher, pc, issues_on, skip_existing,
          dry_run, repos, i, date_str, results, force, temp, it, up, prev,
          runs, exit_code, cmd, report, mc>>

runArgs == <<issues_on, skip_existing, dry_run, repos, force, cmd, report, mc>>

\* results = {...} of backup_repositories
NewResults(n, day, dry) ==
  [total_repos |-> n, successful |-> << >>, failed |-> << >>,
   skipped |-> << >>, would_backup |-> << >>,
   issues_backup |-> [successful |-> << >>, failed |-> << >>, skipped |-> << >>],
   timestamp |-> day, dry_run |-> dry]

NoIteration ==
  [repo |-> << >>, head |-> "none", ihead |-> "none", probe |-> "none", clone |-> "none", archive |-> "none", upload |-> "none",
   iprobe |-> "none", export |-> "none", dump |-> "none", iupload |-> "none",
   unlink |-> "none", keys_probed |-> {}, keys_uploaded |-> {}]

NoUpload ==
  [caller |-> "none", key |-> {}, transfer |-> "none", head |-> "none",
   stat |-> "none", s3_size |-> 0, local_size |-> 0, verified |-> "none",
   ret |-> "none"]

NoPrev ==
  [run |-> FALSE, dry_run |-> FALSE, failed |-> {}, issues_failed |-> FALSE,
   issues_on |-> FALSE]

\* no command has run yet
NoCmd ==
  [task |-> "none", token |-> FALSE, enabled |-> FALSE, org |-> FALSE,
   listing |-> "none"]

\* a backup command that got as far as backup_repositories' loop
StartedCmd ==
  [task |-> "backup", token |-> TRUE, enabled |-> TRUE, org |-> TRUE,
   listing |-> "ok"]

NoReport ==
  [made |-> FALSE, total_repos |-> 0, repos_with_backups |-> 0,
   total_backup_size |-> 0, repositories |-> {}]

NoExport ==
  [total_issues |-> 0, open_issues |-> 0, closed_issues |-> 0,
   issues |-> << >>]

NoCall ==
  [op |-> "none", name |-> << >>, all |-> << >>, result |-> FALSE,
   matched |-> << >>, not_found |-> {},
   repos |-> << >>, contents |-> << >>, outcomes |-> << >>, raised |-> FALSE,
   items |-> << >>, export |-> NoExport]

\* the process before any command, whatever the matcher's configuration
InitProcess ==
  /\ storage = {}
  /\ today = 1
  /\ pc = "idle"
  /\ issues_on = FALSE
  /\ skip_existing = TRUE
  /\ dry_run = FALSE
  /\ repos = << >>
  /\ i = 1
  /\ date_str = 1
  /\ results = NewResults(0, 1, FALSE)
  /\ force = FALSE
  /\ temp = {}
  /\ it = NoIteration
  /\ up = NoUpload
  /\ prev = NoPrev
  /\ runs = 0
  /\ exit_code = -1
  /\ cmd = NoCmd
  /\ report = NoReport
  /\ mc = NoCall

Init ==
  /\ matcher \in MatcherConfigs
  /\ InitProcess


\* ------------------------------------------------- the result summary
\* results["successful"].append(repo.full_name)
AppendSuccessful(res, name) ==
  [res EXCEPT !.successful = Append(@, name)]

\* (mutant) a failure is not recorded
AppendFailedDropped(res, name, reason) == res

\* results["failed"].append({"repo": ..., "reason": ...})
AppendFailed(res, name, reason) ==
  [res EXCEPT !.failed = Append(@, [repo |-> name, reason |-> reason])]

\* results["skipped"].append({"repo": ..., "reason": "already_exists"})
AppendSkipped(res, name) ==
  [res EXCEPT !.skipped = Append(@, [repo |-> name, reason |-> "already_exists"])]

\* results["would_backup"].append({"repo": ..., "backup_key": ...})
AppendWouldBackup(res, name, key) ==
  [res EXCEPT !.would_backup = Append(@, [repo |-> name, backup_key |-> key])]

\* results["issues_backup"][...].append(...)
IssuesSuccessful(res, name) ==
  [res EXCEPT !.issues_backup.successful = Append(@, name)]

IssuesFailed(res, name, reason) ==
  [res EXCEPT !.issues_backup.failed = Append(@, [repo |-> name, reason |-> reason])]

IssuesSkipped(res, name) ==
  [res EXCEPT !.issues_backup.skipped = Append(@, name)]

\* the names recorded in a list of {"repo": ...} entries
ReposOf(list) == {list[k].repo : k \in 1..Len(list)}

\* ---------------------------------------------------- control decisions
\* (mutant) the first failure ends the loop
AbortOnFailure(k) == Len(repos) + 1

\* for repo in repos: ... except Exception: ... (the loop goes on)
AfterFailure(k) == k + 1

\* (mutant) the probe is made whatever skip_existing says
AlwaysProbes == TRUE

\* line 97: `skip_existing and self.s3_handler.backup_exists(backup_key)`:
\* the probe is made only when skip_existing is set
ProbesArchive == skip_existing

\* (mutant) `not dry_run` is forgotten
IssuesAfterSkipInDryRun == issues_on

\* line 101: `if self.issues_handler and not dry_run` on the skipped path
IssuesAfterSkip == issues_on /\ ~dry_run

\* (mutant) the return value is not looked at
AlwaysSuccess(ret) == TRUE

\* line 116: `if success:` on _backup_single_repo's return value
IsSuccess(ret) == ret = "true"

\* (mutant) no issue export after a successful backup
NoIssuesAfterSuccess == FALSE

\* line 119: `if self.issues_handler` after a successful backup
IssuesAfterSuccess == issues_on

\* (mutant) the issue export reads the clock again
IssuesDateNow == today

\* lines 102 and 120: the date_str of the iteration is passed on to
\* _backup_issues, which builds issues_key from it (line 219)
IssuesDate == date_str

\* line 223: `skip_existing and self.s3_handler.backup_exists(issues_key)`
ProbesIssues == skip_existing

\* main.run_backup line 92: skip_existing=not args.force
SkipExistingArg(frc) == ~frc

\* (mutant) a failed issue export counts as a failure of the run
ExitCodeCountsIssues(res) ==
  IF ~res.dry_run /\ (res.failed # << >> \/ res.issues_backup.failed # << >>)
  THEN 1 ELSE 0

\* (mutant) the enable flag is not looked at
ConfigExitIgnoresEnabled(task, token, enabled, org) ==
  CASE ~token -> 1
    [] ~org -> 1
    [] OTHER -> -1

\* (mutant) a missing organization does not end the command
ConfigExitWithoutOrgCheck(task, token, enabled, org) ==
  CASE ~token -> 1
    [] task = "backup" /\ ~enabled -> 0
    [] OTHER -> -1

\* run_backup lines 44-53 and 83-86, run_report lines 141-144 and 174-177:
\* the exit code of a command that ends on its configuration, -1 when the
\* command goes on
ConfigExit(task, token, enabled, org) ==
  CASE ~token -> 1
    [] task = "backup" /\ ~enabled -> 0
    [] ~org -> 1
    [] OTHER -> -1

\* main.run_backup lines 98-122: the exit code from the summary
ExitCode(res) ==
  IF ~res.dry_run /\ res.failed # << >> THEN 1 ELSE 0

\* tempfile.TemporaryDirectory() of _backup_single_repo and what is put in it
SingleRepoTemp(name) ==
  {<<name, "temp_dir">>, <<name, "repo_path">>, <<name, "archive">>}

\* `with tempfile.TemporaryDirectory()` exit: the directory and its content go
CleanupSingleRepo(t, name) == t \ SingleRepoTemp(name)

\* `finally: temp_file.unlink()` of _backup_issues
UnlinkIssuesFile(t, name) == t \ {<<name, "issues_json">>}

\* lines 261-268: temp_file.unlink() raises in the `finally`, after the
\* outcome of the upload was recorded; the handler of _backup_issues records
\* a failed issue export
AfterUnlinkFailure(res, name) == IssuesFailed(res, name, "exception")

\* the NamedTemporaryFile(delete=False) after json.dump raised inside the
\* `with`: the file is closed, not deleted, and the `finally` is never entered
AfterDumpFailure(t, name) == t

\* ---------------------------------------------------------------- actions
Name == repos[i]

Advance(k) == i' = k /\ pc' = "loop"

\* BackupManager.backup_repositories, lines 66-86
StartBackup(c, frc, iss, skip, dry) ==
  /\ force' = frc
  /\ issues_on' = iss
  /\ skip_existing' = skip
  /\ dry_run' = dry
  /\ repos' = FilterRepositories(matcher, OrgRepos)
  /\ results' = NewResults(Len(repos'), today, dry)
  /\ i' = 1
  /\ pc' = "loop"
  /\ date_str' = today
  /\ temp' = {}
  /\ it' = NoIteration
  /\ up' = NoUpload
  /\ exit_code' = -1
  /\ cmd' = [c EXCEPT !.listing = "ok"]
  /\ report' = NoReport
  /\ UNCHANGED <<storage, today, matcher, prev, mc>>

\* a command that ends before backup_repositories' loop or outside it: the
\* process holds no summary; st is what it leaves in storage
EndCommand(c, code, rep, st) ==
  /\ cmd' = c
  /\ storage' = st
  /\ exit_code' = code
  /\ report' = rep
  /\ pc' = "idle"
  /\ repos' = << >>
  /\ results' = NewResults(0, 1, FALSE)
  /\ i' = 1
  /\ date_str' = 1
  /\ temp' = {}
  /\ it' = NoIteration
  /\ up' = NoUpload
  /\ issues_on' = FALSE
  /\ skip_existing' = TRUE
  /\ dry_run' = FALSE
  /\ force' = FALSE
  /\ UNCHANGED <<today, matcher, prev, mc>>

\* main.run_backup, lines 42-94 and 124-126: the command line entry point;
\* it builds the BackupManager without backup_metadata, so without an issues
\* handler.  Once the configuration is accepted, either GitHub refuses the
\* listing of filter_repositories (the exception ends the command with 1)
\* or backup_repositories starts.
RunBackup ==
  /\ pc \in {"idle", "returned"}
  /\ runs < MaxRuns
  /\ runs' = runs + 1
  /\ \E token \in BOOLEAN, enabled \in BOOLEAN, org \in BOOLEAN :
       LET c == [task |-> "backup", token |-> token, enabled |-> enabled,
                 org |-> org, listing |-> "none"]
           e == ConfigExit("backup", token, enabled, org)
       IN IF e # -1
          THEN EndCommand(c, e, NoReport, storage)
          ELSE \/ EndCommand([c EXCEPT !.listing = "raised"], 1, NoReport,
                             storage)
               \/ \E frc \in BOOLEAN, dry \in BOOLEAN :
                    StartBackup(c, frc, FALSE, SkipExistingArg(frc), dry)

\* main.run_report, lines 140-194, with BackupManager.get_backup_report:
\* the report command
RunReport ==
  /\ pc \in {"idle", "returned"}
  /\ runs < MaxRuns
  /\ runs' = runs + 1
  /\ \E token \in BOOLEAN, org \in BOOLEAN :
       LET c == [task |-> "report", token |-> token, enabled |-> FALSE,
                 org |-> org, listing |-> "none"]
           rs == FilterRepositories(matcher, OrgRepos)
           e == ConfigExit("report", token, FALSE, org)
       IN IF e # -1
          THEN EndCommand(c, e, NoReport, storage)
          ELSE \/ EndCommand([c EXCEPT !.listing = "raised"], 1, NoReport,
                             storage)
               \/ \E lo \in [1..Len(rs) -> S3Outcomes], size \in Sizes :
                    IF \E k \in 1..Len(rs) :
                         ListBackups(storage, rs[k], lo[k], size).raised
                    THEN EndCommand([c EXCEPT !.listing = "ok"], 1, NoReport,
                                    StorageAfterReport(storage, rs, 1))
                    ELSE EndCommand([c EXCEPT !.listing = "ok"], 0,
                                    GetBackupReport(rs, storage, lo, size),
                                    StorageAfterReport(storage, rs, 1))

\* a direct call of BackupManager.backup_repositories (as the tests make),
\* on a manager built with or without backup_metadata["issues"]
ApiBackup ==
  /\ pc \in {"idle", "returned"}
  /\ runs < MaxRuns
  /\ runs' = runs + 1
  /\ \E iss \in BOOLEAN, skip \in BOOLEAN, dry \in BOOLEAN :
       StartBackup(StartedCmd, FALSE, iss, skip, dry)

\* backup_repositories, lines 128-139, and what run_backup, lines 96-122,
\* makes of the summary
Return ==
  /\ pc = "loop"
  /\ i > Len(repos)
  /\ pc' = "returned"
  /\ exit_code' = ExitCode(results)
  /\ prev' = IF results.timestamp = today
             THEN [run |-> TRUE, dry_run |-> dry_run,
                   failed |-> ReposOf(results.failed),
                   issues_failed |-> results.issues_backup.failed # << >>,
                   issues_on |-> issues_on]
             ELSE NoPrev
  /\ it' = NoIteration
  /\ up' = NoUpload
  /\ UNCHANGED <<storage, today, matcher, runArgs, i, date_str, results, temp,
                 runs>>

\* lines 106-114 once the repository is known not to be skipped
NotSkipped(itx) ==
  IF dry_run
  THEN /\ results' = AppendWouldBackup(results, Name, BackupKey(Name, today))
       /\ it' = itx
       /\ Advance(i + 1)
  ELSE /\ results' = results
       /\ it' = itx
       /\ i' = i
       /\ pc' = "clone"

\* backup_repositories, lines 88-111 and 124-126: one repository's start
CheckExists ==
  /\ pc = "loop"
  /\ i <= Len(repos)
  /\ date_str' = today
  /\ up' = NoUpload
  /\ temp' = {}
  /\ LET key == BackupKey(Name, today)
         fresh == [NoIteration EXCEPT !.repo = Name]
     IN IF ProbesArchive
        THEN \E o \in S3Outcomes :
               LET r == BackupExists(storage, key, o)
                   probed == [fresh EXCEPT !.keys_probed = {ProbeFullKey(key)},
                                           !.head = o]
               IN CASE r = "true" ->
                         /\ results' = AppendSkipped(results, Name)
                         /\ it' = [probed EXCEPT !.probe = "true"]
                         /\ IF IssuesAfterSkip
                            THEN i' = i /\ pc' = "issues_exists"
                            ELSE Advance(i + 1)
                    [] r = "false" ->
                         NotSkipped([probed EXCEPT !.probe = "false"])
                    [] OTHER ->
                         /\ results' = AppendFailed(results, Name, "exception")
                         /\ it' = [probed EXCEPT !.probe = "raised"]
                         /\ Advance(AfterFailure(i))
        ELSE NotSkipped(fresh)
  /\ UNCHANGED <<storage, today, matcher, runArgs, prev, runs, exit_code>>

\* _backup_single_repo, lines 152-173 and 197-202: git clone --mirror
Clone ==
  /\ pc = "clone"
  /\ \E o \in StepOutcomes :
       /\ it' = [it EXCEPT !.clone = o]
       /\ IF o = "ok"
          THEN /\ temp' = temp \cup {<<Name, "temp_dir">>, <<Name, "repo_path">>}
               /\ results' = results
               /\ i' = i
               /\ pc' = "archive"
          ELSE /\ temp' = CleanupSingleRepo(temp \cup {<<Name, "temp_dir">>}, Name)
               /\ results' = AppendFailed(results, Name, "upload_failed")
               /\ Advance(AfterFailure(i))
  /\ UNCHANGED <<storage, today, matcher, runArgs, date_str, up, prev, runs,
                 exit_code>>

\* _backup_single_repo, lines 175-193 and 197-202: tar -czf, then the upload
\* of the archive begins
Archive ==
  /\ pc = "archive"
  /\ \E o \in StepOutcomes :
       /\ it' = [it EXCEPT !.archive = o]
       /\ IF o = "ok"
          THEN /\ temp' = temp \cup {<<Name, "archive">>}
               /\ up' = [NoUpload EXCEPT !.caller = "repo",
                           !.key = {FullKey(BackupKey(Name, date_str))}]
               /\ results' = results
               /\ i' = i
               /\ pc' = "transfer"
          ELSE /\ temp' = CleanupSingleRepo(temp, Name)
               /\ up' = up
               /\ results' = AppendFailed(results, Name, "upload_failed")
               /\ Advance(AfterFailure(i))
  /\ UNCHANGED <<storage, today, matcher, runArgs, date_str, prev, runs,
                 exit_code>>

\* what the caller of upload_file does with its return value:
\* backup_repositories lines 116-122 (after _backup_single_repo's `with`
\* exits), or _backup_issues lines 249-263
UploadDone(ret) ==
  IF up.caller = "repo"
  THEN /\ temp' = CleanupSingleRepo(temp, Name)
       /\ it' = [it EXCEPT !.upload = ret, !.keys_uploaded = @ \cup up.key]
       /\ IF IsSuccess(ret)
          THEN /\ results' = AppendSuccessful(results, Name)
               /\ IF IssuesAfterSuccess
                  THEN i' = i /\ pc' = "issues_exists"
                  ELSE Advance(i + 1)
          ELSE /\ results' = AppendFailed(results, Name, "upload_failed")
               /\ Advance(AfterFailure(i))
  ELSE \E u \in StepOutcomes :
         LET recorded == IF ret = "true"
                         THEN IssuesSuccessful(results, Name)
                         ELSE IssuesFailed(results, Name, "upload_failed")
         IN /\ it' = [it EXCEPT !.iupload = ret, !.unlink = u,
                                !.keys_uploaded = @ \cup up.key]
            /\ IF u = "ok"
               THEN /\ temp' = UnlinkIssuesFile(temp, Name)
                    /\ results' = recorded
               ELSE /\ temp' = temp
                    /\ results' = AfterUnlinkFailure(recorded, Name)
            /\ Advance(i + 1)

\* S3Handler.upload_file, lines 57-76 and 86-91: the transfer
Transfer ==
  /\ pc = "transfer"
  /\ \E o \in S3Outcomes :
       IF o = "ok"
       THEN /\ storage' = PutObject(storage, CHOOSE k \in up.key : TRUE)
            /\ up' = [up EXCEPT !.transfer = "ok"]
            /\ pc' = "verify"
            /\ UNCHANGED <<i, results, temp, it>>
       ELSE /\ storage' = storage
            /\ up' = [up EXCEPT !.transfer = o, !.ret = UploadFile(o, "none")]
            /\ UploadDone(UploadFile(o, "none"))
  /\ UNCHANGED <<today, matcher, runArgs, date_str, prev, runs, exit_code>>

\* S3Handler.upload_file, lines 78-91, with _verify_upload, lines 114-127:
\* head_object reports the object's ContentLength, stat() the local size;
\* stat() is called only after head_object has answered, and the sizes are
\* known only when both have.  The sizes are only compared for equality:
\* the local file has the size it was written with, storage reports that
\* size or a smaller one.
Verify ==
  /\ pc = "verify"
  /\ \E h \in S3Outcomes :
     \E st \in (IF h = "ok" THEN StepOutcomes ELSE {"none"}) :
     \E s3_size \in (IF st = "ok" THEN Sizes ELSE {0}) :
     \E local_size \in (IF st = "ok" THEN {LocalSize} ELSE {0}) :
       LET verified == VerifyUpload(h, s3_size, st, local_size)
           ret == UploadFile(up.transfer, verified)
       IN /\ up' = [up EXCEPT !.head = h,
                      !.stat = st,
                      !.s3_size = s3_size,
                      !.local_size = local_size,
                      !.verified = verified,
                      !.ret = ret]
          /\ UploadDone(ret)
  /\ UNCHANGED <<storage, today, matcher, runArgs, date_str, prev, runs,
                 exit_code>>

\* _backup_issues, lines 219-226 and 265-268
IssuesExists ==
  /\ pc = "issues_exists"
  /\ up' = NoUpload
  /\ LET key == IssuesKey(Name, IssuesDate)
     IN IF ProbesIssues
        THEN \E o \in S3Outcomes :
               LET r == BackupExists(storage, key, o)
                   probed == [it EXCEPT !.keys_probed = @ \cup {ProbeFullKey(key)},
                                        !.ihead = o]
               IN CASE r = "true" ->
                         /\ results' = IssuesSkipped(results, Name)
                         /\ it' = [probed EXCEPT !.iprobe = "true"]
                         /\ Advance(i + 1)
                    [] r = "false" ->
                         /\ results' = results
                         /\ it' = [probed EXCEPT !.iprobe = "false"]
                         /\ i' = i
                         /\ pc' = "export"
                    [] OTHER ->
                         /\ results' = IssuesFailed(results, Name, "exception")
                         /\ it' = [probed EXCEPT !.iprobe = "raised"]
                         /\ Advance(i + 1)
        ELSE /\ results' = results
             /\ it' = it
             /\ i' = i
             /\ pc' = "export"
  /\ UNCHANGED <<storage, today, matcher, runArgs, date_str, temp, prev,
                 runs, exit_code>>

\* _backup_issues, lines 228-230 and 265-268: issues_handler.export_issues
Export ==
  /\ pc = "export"
  /\ \E o \in {"ok", "raised"} :
       /\ it' = [it EXCEPT !.export = o]
       /\ IF o = "ok"
          THEN /\ results' = results
               /\ i' = i
               /\ pc' = "dump"
          ELSE /\ results' = IssuesFailed(results, Name, "exception")
               /\ Advance(i + 1)
  /\ UNCHANGED <<storage, today, matcher, runArgs, date_str, temp, up, prev,
                 runs, exit_code>>

\* _backup_issues, lines 232-247 and 265-268: the export is written to a
\* NamedTemporaryFile(delete=False), then its upload begins
Dump ==
  /\ pc = "dump"
  /\ \E o \in {"ok", "raised"} :
       /\ it' = [it EXCEPT !.dump = o]
       /\ IF o = "ok"
          THEN /\ temp' = temp \cup {<<Name, "issues_json">>}
               /\ up' = [NoUpload EXCEPT !.caller = "issues",
                           !.key = {FullKey(IssuesKey(Name, IssuesDate))}]
               /\ results' = results
               /\ i' = i
               /\ pc' = "transfer"
          ELSE /\ temp' = AfterDumpFailure(temp \cup {<<Name, "issues_json">>}, Name)
               /\ up' = up
               /\ results' = IssuesFailed(results, Name, "exception")
               /\ Advance(i + 1)
  /\ UNCHANGED <<storage, today, matcher, runArgs, date_str, prev, runs,
                 exit_code>>

\* The UTC clock.  The program reads the date only at line 93, once per
\* iteration, so midnight matters between iterations, between runs and
\* between the archive's steps and the issue export of one iteration.
Tick ==
  /\ pc \in {"idle", "returned", "loop", "issues_exists"}
  /\ today < MaxDay
  /\ today' = today + 1
  /\ prev' = NoPrev
  /\ UNCHANGED <<storage, matcher, pc, runArgs, i, date_str, results, temp, it,
                 up, runs, exit_code>>

Next ==
  \/ RunBackup
  \/ RunReport
  \/ ApiBackup
  \/ Return
  \/ CheckExists
  \/ Clone
  \/ Archive
  \/ Transfer
  \/ Verify
  \/ IssuesExists
  \/ Export
  \/ Dump
  \/ Tick

Spec == Init /\ [][Next]_vars

\* ------------------------------------------- the matcher taken on its own
\* everything but the matcher and the call made on it
processVars ==
  <<storage, today, pc, issues_on, skip_existing, dry_run, repos, i, date_str,
    results, force, temp, it, up, prev, runs, exit_code, cmd, report>>

MatcherInit ==
  /\ matcher \in MatcherInputs
  /\ InitProcess

\* RepoMatcher.matches(repo_name)
CallMatches ==
  /\ \E n \in RepoNames :
       mc' = [NoCall EXCEPT !.op = "matches", !.name = n,
                            !.result = Matches(matcher, n)]
  /\ UNCHANGED <<matcher, processVars>>

\* RepoMatcher.is_excluded(repo_name)
CallIsExcluded ==
  /\ \E n \in RepoNames :
       mc' = [NoCall EXCEPT !.op = "is_excluded", !.name = n,
                            !.result = IsExcluded(matcher, n)]
  /\ UNCHANGED <<matcher, processVars>>

\* RepoMatcher.filter_repositories on the list GitHub returns
CallFilter ==
  /\ \E all \in OrgLists :
       mc' = [NoCall EXCEPT !.op = "filter", !.all = all,
                            !.matched = FilterRepositories(matcher, all),
                            !.not_found = NotFound(matcher, all)]
  /\ UNCHANGED <<matcher, processVars>>

MatcherNext ==
  \/ CallMatches
  \/ CallIsExcluded
  \/ CallFilter

MatcherSpec == MatcherInit /\ [][MatcherNext]_vars

\* ------------------------------------------- the report taken on its own
\* the matched repositories a report is made for
ReportRepos == { << >>, << <<"q", "a">> >>, << <<"q", "a">>, <<"q", "b">> >> }

\* what storage holds under one repository's prefix: for each day, the size
\* of that day's archive, 0 when there is none
Holdings == [Days -> Sizes \cup {0}]

\* the pages' Contents for repository name when storage holds h
Contents(name, h) ==
  {[key |-> FullKey(BackupKey(name, d)), size |-> h[d]] :
     d \in {x \in Days : h[x] # 0}}

\* BackupManager.get_backup_report on drawn repositories, holdings and
\* answers of storage
CallReport ==
  /\ mc.op = "none"
  /\ \E rs \in ReportRepos :
     \E hs \in [1..Len(rs) -> Holdings], lo \in [1..Len(rs) -> S3Outcomes] :
       LET contents == [k \in 1..Len(rs) |-> Contents(rs[k], hs[k])]
           res == [k \in 1..Len(rs) |-> ListResult(contents[k], lo[k])]
           raised == \E k \in 1..Len(rs) : res[k].raised
       IN /\ mc' = [NoCall EXCEPT !.op = "report", !.repos = rs,
                                  !.contents = contents, !.outcomes = lo,
                                  !.raised = raised]
          /\ report' = IF raised THEN NoReport
                        ELSE BuildReport(rs, [k \in 1..Len(rs) |-> res[k].backups])
  /\ UNCHANGED <<storage, today, matcher, pc, issues_on, skip_existing,
                 dry_run, repos, i, date_str, results, force, temp, it, up,
                 prev, runs, exit_code, cmd>>

ReportNext == CallReport

ReportSpec == Init /\ [][ReportNext]_vars

\* ------------------------------------- the issue export taken on its own
\* the numbers GitHub gives to the issues and pull requests of a repository
IssueNumbers == 1..MaxItems

\* listings of up to MaxItems items with distinct numbers, in any order
Listings ==
  UNION {{s \in [1..n -> [number : IssueNumbers, pr : BOOLEAN,
                            state : IssueStates]] :
            \A j, k \in 1..n : j # k => s[j].number # s[k].number} :
         n \in 0..MaxItems}

\* IssuesHandler.export_issues on a drawn listing
CallExport ==
  /\ mc.op = "none"
  /\ \E items \in Listings :
       mc' = [NoCall EXCEPT !.op = "export", !.items = items,
                            !.export = ExportIssues(items)]
  /\ UNCHANGED <<matcher, processVars>>

ExportNext == CallExport

ExportSpec == Init /\ [][ExportNext]_vars


\* ======================================================= the properties
Occurs(list, r) == Cardinality({k \in 1..Len(list) : list[k] = r})

OccursRepo(list, r) == Cardinality({k \in 1..Len(list) : list[k].repo = r})

\* how often a repository is in the four primary lists of a summary
PrimaryCount(res, r) ==
  Occurs(res.successful, r) + OccursRepo(res.failed, r)
    + OccursRepo(res.skipped, r) + OccursRepo(res.would_backup, r)

\* how often a repository is in the three issue outcome lists of a summary
IssuesCount(res, r) ==
  Occurs(res.issues_backup.successful, r) + OccursRepo(res.issues_backup.failed, r)
    + Occurs(res.issues_backup.skipped, r)

NoIssueOutcome(res) ==
  /\ res.issues_backup.successful = << >>
  /\ res.issues_backup.failed = << >>
  /\ res.issues_backup.skipped = << >>

\* the iteration of repository it.repo has just ended
IterationDone == pc = "loop" /\ it.repo # << >>

\* an issue export is being attempted for the current repository
IssuesInProgress ==
  \/ pc \in {"issues_exists", "export", "dump"}
  \/ pc \in {"transfer", "verify"} /\ up.caller = "issues"

\* C1: when backup_repositories returns, every matched repository is in
\* exactly one of successful, failed, skipped and would_backup, and the
\* four lengths sum to total_repos.
C1_ExactlyOneList ==
  pc = "returned" =>
    /\ \A r \in Range(repos) : PrimaryCount(results, r) = 1
    /\ results.total_repos = Len(repos)
    /\ Len(results.successful) + Len(results.failed) + Len(results.skipped)
         + Len(results.would_backup) = results.total_repos

C1_Witness ==
  /\ pc = "returned"
  /\ Len(repos) = 2
  /\ Len(results.failed) = 1
  /\ Len(results.successful) = 1

\* position of the program inside one iteration, growing with every step
Rank ==
  CASE pc = "loop" -> 0
    [] pc = "clone" -> 1
    [] pc = "archive" -> 2
    [] pc = "transfer" /\ up.caller = "repo" -> 3
    [] pc = "verify" /\ up.caller = "repo" -> 4
    [] pc = "issues_exists" -> 5
    [] pc = "export" -> 6
    [] pc = "dump" -> 7
    [] pc = "transfer" -> 8
    [] pc = "verify" -> 9
    [] OTHER -> 10

\* a step of the run in progress
RunStep ==
  \/ Return \/ CheckExists \/ Clone \/ Archive \/ Transfer \/ Verify
  \/ IssuesExists \/ Export \/ Dump

\* C2: a failure of one repository never stops the run: the step that
\* records a failure moves on to the next repository; while a run is in
\* progress one of its steps can always be taken, and each of them brings
\* the run closer to its return (the next repository, or a later stage of
\* the same one); when backup_repositories returns, every matched
\* repository has an outcome.
C2_FailureDoesNotStop ==
  /\ [](pc = "returned" =>
          /\ i = Len(repos) + 1
          /\ \A r \in Range(repos) : PrimaryCount(results, r) >= 1)
  /\ [](pc \notin {"idle", "returned"} => ENABLED RunStep)
  /\ [][Len(results'.failed) > Len(results.failed) =>
          /\ i <= Len(repos)
          /\ pc' = "loop"
          /\ i' = i + 1]_vars
  /\ [][(pc \notin {"idle", "returned"} /\ today' = today) =>
          \/ pc' = "returned"
          \/ i' > i
          \/ i' = i /\ Rank' > Rank]_vars

C2_Witness ==
  /\ pc = "returned"
  /\ Len(repos) = 2
  /\ repos[1] \in ReposOf(results.failed)
  /\ repos[2] \in Range(results.successful)

\* the second run of C3, at the end of one of its iterations: an earlier
\* non-simulate run completed today with an empty failed list, and this run
\* has skip-existing on.  The claim is read in the sense most favourable to
\* it: both runs have the same issue-export setting, and storage answers
\* every existence probe of the second run.
SecondRun ==
  /\ IterationDone
  /\ prev.run
  /\ ~prev.dry_run
  /\ prev.failed = {}
  /\ skip_existing
  /\ prev.issues_on = issues_on
  /\ it.head = "ok"
  /\ it.ihead \in {"none", "ok"}

C4_SkippedIffProbeTrue ==
  /\ it.repo # << >> =>
       /\ it.repo \in ReposOf(results.skipped)
            <=> (skip_existing /\ it.probe = "true")
       /\ it.repo \in ReposOf(results.skipped) =>
            /\ it.clone = "none"
            /\ it.archive = "none"
            /\ it.upload = "none"
            /\ FullKey(BackupKey(it.repo, date_str)) \notin it.keys_uploaded
  /\ \A k \in 1..Len(results.skipped) : results.skipped[k].reason = "already_exists"
  /\ force =>
       /\ ~skip_existing
       /\ results.skipped = << >>
       /\ it.probe = "none"
       /\ it.iprobe = "none"
       /\ it.keys_probed = {}

C4_Witness ==
  /\ IterationDone
  /\ it.probe = "true"
  /\ it.repo \in ReposOf(results.skipped)
  /\ ~issues_on

\* C5 as stated: in simulate mode, whatever the other flags, a repository
\* is recorded as would-backup only if its backup key is not in storage
\* (read in the sense most favourable to the claim: storage answered the
\* existence probe, if one was made).
C5_Original ==
  (dry_run /\ IterationDone /\ it.head \in {"none", "ok"}) =>
    \A k \in 1..Len(results.would_backup) :
      results.would_backup[k].repo = it.repo =>
        FullKey(results.would_backup[k].backup_key) \notin storage

\* C5 (amended): in simulate mode with skip-existing on, a repository is
\* recorded as would-backup only if the existence probe of its backup key
\* returned false, which, when storage answered the probe, means that the
\* key is not in storage; with skip-existing off no probe is made and every
\* repository is recorded as would-backup, whether its key exists or not.
C5_WouldBackupIffProbeFalse ==
  (dry_run /\ it.repo # << >>) =>
    LET would == it.repo \in ReposOf(results.would_backup)
    IN /\ (would /\ skip_existing) =>
            /\ it.probe = "false"
            /\ it.head = "ok" =>
                 FullKey(BackupKey(it.repo, date_str)) \notin storage
       /\ ~skip_existing => (would /\ it.probe = "none")

C5_Witness ==
  /\ dry_run
  /\ skip_existing
  /\ IterationDone
  /\ it.head = "ok"
  /\ it.repo \in ReposOf(results.would_backup)
  /\ storage # {}

\* C6: in simulate mode nothing is cloned, archived, uploaded or exported:
\* no step changes storage, and the successful list and the three issue
\* outcome lists stay empty.
C6_SimulateChangesNothing ==
  /\ [](dry_run =>
          /\ results.successful = << >>
          /\ NoIssueOutcome(results)
          /\ pc \in {"idle", "loop", "returned"}
          /\ it.clone = "none" /\ it.archive = "none" /\ it.upload = "none"
          /\ it.iprobe = "none" /\ it.export = "none" /\ it.dump = "none"
          /\ it.iupload = "none" /\ it.keys_uploaded = {}
          /\ temp = {})
  /\ [][dry_run => storage' = storage]_vars

C6_Witness ==
  /\ dry_run
  /\ issues_on
  /\ pc = "returned"
  /\ results.skipped # << >>
  /\ results.would_backup # << >>

\* C7: a repository is recorded as succeeded iff its clone, then its
\* archive command succeeded and then the uploader returned true; the
\* archive is never run after a failed clone, the uploader never after a
\* failed clone or archive.
C7_SucceededIffAllThree ==
  /\ it.repo # << >> =>
       /\ it.repo \in Range(results.successful)
            <=> (it.clone = "ok" /\ it.archive = "ok" /\ it.upload = "true")
       /\ it.archive # "none" => it.clone = "ok"
       /\ it.upload # "none" => it.archive = "ok"
  /\ pc = "archive" => it.clone = "ok"
  /\ (pc \in {"transfer", "verify"} /\ up.caller = "repo") =>
       (it.clone = "ok" /\ it.archive = "ok" /\ it.upload = "none")

C7_Witness ==
  /\ IterationDone
  /\ it.upload = "true"
  /\ it.repo \in Range(results.successful)
  /\ results.failed # << >>

\* C8 as stated: with issue export enabled and no simulation, every matched
\* repository, whatever its primary outcome, gets an issue outcome.
C8_Original ==
  (pc = "returned" /\ issues_on /\ ~dry_run) =>
    \A r \in Range(repos) : IssuesCount(results, r) >= 1

\* C8 (amended): with issue export enabled and no simulation, an issue
\* export is attempted for every matched repository whose primary outcome
\* is succeeded or skipped, after that outcome is recorded, and its result
\* is recorded in an issue outcome list; for a repository whose primary
\* backup failed no issue export is attempted and none is recorded.
C8_IssuesAfterSuccessOrSkip ==
  (issues_on /\ ~dry_run) =>
    /\ pc = "returned" =>
         \A r \in Range(repos) :
           IF r \in Range(results.successful) \cup ReposOf(results.skipped)
           THEN IssuesCount(results, r) >= 1
           ELSE IssuesCount(results, r) = 0
    /\ IssuesInProgress =>
         /\ Name \in Range(results.successful) \cup ReposOf(results.skipped)
         /\ IssuesCount(results, Name) = 0
    /\ (it.repo # << >> /\ it.repo \in ReposOf(results.failed)) =>
         /\ it.iprobe = "none"
         /\ it.export = "none"
         /\ it.iupload = "none"

C8_Witness ==
  /\ issues_on
  /\ ~dry_run
  /\ pc = "returned"
  /\ results.skipped # << >>
  /\ results.issues_backup.successful # << >>

\* C9: at the end of each repository's iteration every temporary artifact
\* created for it (clone directory, archive, issue-export file) is gone.
C9_TempRemoved ==
  pc \in {"loop", "returned"} => temp = {}

\* C10: upload_file returns true iff the transfer raised no error and the
\* size storage then reports equals the local file's size; so it returns
\* false on a size mismatch even when the transfer succeeded.
C10_TrueIffVerified ==
  up.ret # "none" =>
    ( up.ret = "true"
        <=> (up.transfer = "ok" /\ up.head = "ok" /\ up.stat = "ok"
               /\ up.s3_size = up.local_size) )

C10_Witness ==
  /\ up.transfer = "ok"
  /\ up.head = "ok"
  /\ up.stat = "ok"
  /\ up.s3_size # up.local_size
  /\ up.ret = "false"

\* C11: upload_file never raises: after a transport error, an error of the
\* verification or an unreadable local file it returns false, and its
\* caller records the repository with the reason upload_failed.
C11_UploadNeverRaises ==
  /\ up.ret # "none" =>
       /\ up.ret \in {"true", "false"}
       /\ ( \/ up.transfer \in {"client_error", "error"}
            \/ up.head \in {"client_error", "error"}
            \/ up.stat = "failed"
            \/ up.verified \in {"false", "raised"} ) => up.ret = "false"
  /\ (it.repo # << >> /\ it.upload = "false") =>
       [repo |-> it.repo, reason |-> "upload_failed"] \in Range(results.failed)
  /\ it.upload \in {"none", "true", "false"}
  /\ it.iupload \in {"none", "true", "false"}

C11_Witness ==
  /\ up.transfer = "ok"
  /\ up.head = "ok"
  /\ up.stat = "failed"
  /\ up.verified = "raised"
  /\ up.ret = "false"
  /\ it.upload = "false"

\* C12: backup_exists returns false only when storage answered "not
\* found"; any other storage error is not reported as false.
C12_OtherErrorsNotFalse ==
  /\ it.probe = "false" => it.head = "ok"
  /\ it.iprobe = "false" => it.ihead = "ok"

\* -------------------------------------------- properties of the commands
\* the process did no work: no repository listing, no summary entry, no
\* probe, clone, archive or upload, no report
NoWorkDone ==
  /\ pc = "idle"
  /\ cmd.listing = "none"
  /\ repos = << >>
  /\ results = NewResults(0, 1, FALSE)
  /\ it = NoIteration
  /\ up = NoUpload
  /\ temp = {}
  /\ report = NoReport

\* a backup command has ended
BackupEnded == cmd.task = "backup" /\ exit_code # -1

\* C17 as stated: whatever the force and simulate flags, the backup command
\* exits 1 when a repository is in the failed list or the auth token or the
\* organization is missing, and 0 when no repository failed (read in the
\* sense most favourable to the claim: the organization counts as missing
\* only for a command whose configuration enables the backup).
C17_ExitCodeTellsFailure ==
  BackupEnded =>
    /\ (~cmd.token \/ (cmd.enabled /\ ~cmd.org)) => exit_code = 1
    /\ (pc = "returned" /\ results.failed # << >>) => exit_code = 1
    /\ (pc = "returned" /\ results.failed = << >>) => exit_code = 0

\* C18 as stated: with token and organization present, the backup command
\* exits non-zero only if the failed list is non-empty.
C18_Original ==
  (BackupEnded /\ cmd.token /\ cmd.org /\ exit_code # 0) =>
    results.failed # << >>

\* C18 (amended): with token and organization present, the backup command
\* exits non-zero only if the failed list of its summary is non-empty or an
\* unexpected error (the repository listing raising) ended it before any
\* summary; a summary with an empty failed list gives exit code 0, whatever
\* its skipped list and its failed issue exports.
C18_NonZeroOnlyOnFailure ==
  BackupEnded =>
    /\ (cmd.token /\ cmd.org /\ exit_code # 0) =>
         \/ cmd.listing = "raised"
         \/ pc = "returned" /\ ~dry_run /\ results.failed # << >>
    /\ (pc = "returned" /\ results.failed = << >>) => exit_code = 0

C18_Witness ==
  /\ BackupEnded
  /\ pc = "returned"
  /\ exit_code = 0
  /\ results.skipped # << >>
  /\ results.successful # << >>
  /\ results.issues_backup.failed # << >>

\* C19 as stated: when the token or the organization is missing, the
\* backup command and the report command return 1 before any work.
C19_Original ==
  (cmd.task \in {"backup", "report"} /\ (~cmd.token \/ ~cmd.org)) =>
    (exit_code = 1 /\ NoWorkDone)

\* C19 (amended): when the token is missing, or the organization is missing
\* and the command is the report command or a backup command whose
\* configuration enables the backup, the command returns 1 before any work;
\* a backup command with the token present and the backup disabled returns
\* 0 before any work, whether the organization is given or not.  In both
\* cases storage is left as it was.
C19_ConfigErrorsBeforeWork ==
  /\ [](cmd.task \in {"backup", "report"} =>
          /\ (~cmd.token \/ (~cmd.org /\ (cmd.task = "report" \/ cmd.enabled)))
               => (exit_code = 1 /\ NoWorkDone)
          /\ (cmd.task = "backup" /\ cmd.token /\ ~cmd.enabled)
               => (exit_code = 0 /\ NoWorkDone))
  /\ [][(runs' # runs /\ (~cmd'.token \/ ~cmd'.org \/
                            (cmd'.task = "backup" /\ ~cmd'.enabled)))
          => storage' = storage]_vars

C19_Witness ==
  /\ cmd.task = "report"
  /\ cmd.token
  /\ ~cmd.org
  /\ exit_code = 1
  /\ storage # {}

\* a backup command found the token present and the backup disabled
DisabledBackup(c) == c.task = "backup" /\ c.token /\ ~c.enabled

\* C26: when the configuration's enable flag is false or absent and the auth
\* token is present, the backup command returns 0 without listing
\* repositories, probing storage, cloning, archiving or uploading anything.
C26_DisabledDoesNothing ==
  /\ [](DisabledBackup(cmd) =>
          /\ exit_code = 0
          /\ cmd.listing = "none"
          /\ repos = << >>
          /\ it = NoIteration
          /\ up = NoUpload
          /\ temp = {}
          /\ results = NewResults(0, 1, FALSE)
          /\ pc = "idle")
  /\ [][(runs' # runs /\ DisabledBackup(cmd')) => storage' = storage]_vars

C26_Witness ==
  /\ DisabledBackup(cmd)
  /\ cmd.org
  /\ exit_code = 0
  /\ runs = MaxRuns
  /\ storage # {}

\* C20: get_backup_report is read-only: the report command leaves storage
\* as it was and performs no clone, archive, upload or issue export.
C20_ReportReadOnly ==
  /\ [](cmd.task = "report" =>
          /\ pc = "idle"
          /\ results = NewResults(0, 1, FALSE)
          /\ it = NoIteration
          /\ up = NoUpload
          /\ temp = {})
  /\ [][(runs' # runs /\ cmd'.task = "report") => storage' = storage]_vars

C20_Witness ==
  /\ cmd.task = "report"
  /\ report.made
  /\ report.total_repos = 2
  /\ report.repos_with_backups = 1
  /\ storage # {}

\* ---------------------------------------------- properties of the keys
\* the key under which the archive of repository r of day d is stored
ArchiveObject(r, d) == FullKey(BackupKey(r, d))

\* the archive of the current repository is being uploaded
ArchiveUploading == pc \in {"transfer", "verify"} /\ up.caller = "repo"

\* C25: the backup key is made of the repository's name and the UTC date of
\* the iteration only; within one repository's processing the key probed
\* for existence is the key, under the same prefix, the archive is uploaded
\* to; hence after an upload that returned true, a probe for that
\* repository on the same UTC day (one that storage answers) returns true.
C25_ProbeKeyIsUploadKey ==
  /\ ArchiveUploading =>
       /\ up.key = {ArchiveObject(Name, date_str)}
       /\ skip_existing => it.keys_probed = up.key
       /\ pc = "verify" => up.key \subseteq storage
  /\ (it.repo # << >> /\ it.probe # "none") =>
       ArchiveObject(it.repo, date_str) \in it.keys_probed
  /\ it.upload = "true" =>
       /\ ArchiveObject(it.repo, date_str) \in it.keys_uploaded
       /\ ArchiveObject(it.repo, date_str) \in storage
  /\ (it.repo # << >> /\ it.head = "ok" /\ it.clone = "none") =>
       (it.probe = "true" <=> ArchiveObject(it.repo, date_str) \in storage)
  /\ (prev.run /\ ~prev.dry_run /\ it.repo # << >> /\ it.repo \notin prev.failed
        /\ skip_existing /\ it.head = "ok") => it.probe = "true"

C25_Witness ==
  /\ prev.run
  /\ ~prev.dry_run
  /\ prev.failed = {}
  /\ IterationDone
  /\ skip_existing
  /\ it.head = "ok"
  /\ it.probe = "true"
  /\ ArchiveObject(it.repo, today) \in storage

\* C27: with storage written only by this program, a repository recorded as
\* failed in one run is not recorded as skipped by a later skip-existing run
\* on the same UTC day (no upload of its backup key returned true in
\* between: the later run is the next one and has made no upload for it):
\* an upload that fails verification leaves no object under the backup key
\* that a later existence probe would accept.
C27_FailedNotSkippedLater ==
  (prev.run /\ skip_existing /\ it.repo # << >> /\ it.repo \in prev.failed) =>
    /\ it.probe # "true"
    /\ it.repo \notin ReposOf(results.skipped)

\* C28: each repository appears at most once across the three issue outcome
\* lists (successful, failed, skipped), and it appears in one of them only
\* if its primary outcome in the same run is succeeded or skipped, never
\* failed or would-backup.
C28_OneIssueOutcome ==
  \A r \in Range(repos) :
    /\ IssuesCount(results, r) <= 1
    /\ IssuesCount(results, r) >= 1 =>
         /\ r \in Range(results.successful) \cup ReposOf(results.skipped)
         /\ r \notin ReposOf(results.failed) \cup ReposOf(results.would_backup)

\* the keys the current iteration has probed, uploaded to or is uploading to
IterationKeys == it.keys_probed \cup it.keys_uploaded \cup up.key

\* C29: within one repository's iteration the archive key and the
\* issue-export key carry the same date string, the one read at the start
\* of the iteration, even if the UTC date changes between the archive's
\* existence probe and the issue export.
C29_OneDatePerIteration ==
  it.repo # << >> =>
    \A k \in IterationKeys :
      /\ k.key.date = date_str
      /\ k.key.dir = it.repo
      /\ k.key.kind = "issues.json" => k = FullKey(IssuesKey(it.repo, date_str))
      /\ k.key.kind = "tar.gz" => k = FullKey(BackupKey(it.repo, date_str))

C29_Witness ==
  /\ IterationDone
  /\ today # date_str
  /\ it.probe = "false"
  /\ it.upload = "true"
  /\ it.iprobe = "false"
  /\ it.iupload = "true"
  /\ FullKey(BackupKey(it.repo, date_str)) \in it.keys_probed
  /\ FullKey(IssuesKey(it.repo, date_str)) \in it.keys_probed
  /\ FullKey(IssuesKey(it.repo, date_str)) \in it.keys_uploaded
  /\ FullKey(IssuesKey(it.repo, today)) \notin storage

\* -------------------------------------------- properties of the report
RECURSIVE WeightedCount(_, _)
\* the sizes of the objects of S added up size by size, from s down
WeightedCount(S, s) ==
  IF s = 0 THEN 0
  ELSE s * Cardinality({b \in S : b.size = s}) + WeightedCount(S, s - 1)

\* the listing list_backups has to return for the k-th repository
Listing(k) ==
  IF mc.outcomes[k] = "ok" THEN mc.contents[k] ELSE {}

\* all objects listed for the report
AllListed == UNION {Listing(k) : k \in 1..Len(mc.repos)}

\* C21: in the report, repos_with_backups is the number of matched
\* repositories with a non-empty listing (with at least one stored object
\* under their prefix when storage answers), total_backup_size is the sum of
\* the sizes of all listed objects, and the repositories map has an entry
\* exactly for the repositories with backups, with the length and the size
\* sum of that repository's listing.
C21_ReportAggregates ==
  (mc.op = "report" /\ report.made) =>
    LET with == {k \in 1..Len(mc.repos) : Listing(k) # {}}
    IN /\ report.total_repos = Len(mc.repos)
       /\ report.repos_with_backups = Cardinality(with)
       /\ (\A k \in 1..Len(mc.repos) : mc.outcomes[k] = "ok") =>
            report.repos_with_backups =
              Cardinality({k \in 1..Len(mc.repos) : mc.contents[k] # {}})
       /\ report.total_backup_size = WeightedCount(AllListed, MaxSize)
       /\ {e.repo : e \in report.repositories} = {mc.repos[k] : k \in with}
       /\ Cardinality(report.repositories) = Cardinality(with)
       /\ \A k \in with : \E e \in report.repositories :
            /\ e.repo = mc.repos[k]
            /\ e.backup_count = Cardinality(Listing(k))
            /\ e.total_size = WeightedCount(Listing(k), MaxSize)

C21_Witness ==
  /\ mc.op = "report"
  /\ report.made
  /\ report.repos_with_backups = 2
  /\ report.total_backup_size = 5
  /\ \E e \in report.repositories : e.backup_count = 2 /\ e.total_size = 3
  /\ \E e \in report.repositories : e.backup_count = 1 /\ e.total_size = 2

\* C30: when the listing of a repository fails with a storage error (a
\* ClientError), list_backups returns an empty list instead of raising:
\* the report is still made, counts that repository as having no backups,
\* adds nothing for it to total_backup_size and has no entry for it.
C30_ListingErrorIsEmpty ==
  (mc.op = "report" /\ \A k \in 1..Len(mc.repos) : mc.outcomes[k] # "error") =>
    /\ ~mc.raised
    /\ report.made
    /\ \A k \in 1..Len(mc.repos) :
         mc.outcomes[k] = "client_error" =>
           /\ mc.repos[k] \notin {e.repo : e \in report.repositories}
           /\ report.repos_with_backups
                = Cardinality({j \in 1..Len(mc.repos) \ {k} : Listing(j) # {}})
           /\ report.total_backup_size
                = WeightedCount(UNION {Listing(j) : j \in 1..Len(mc.repos) \ {k}},
                                MaxSize)

C30_Witness ==
  /\ mc.op = "report"
  /\ Len(mc.repos) = 2
  /\ mc.outcomes[1] = "client_error"
  /\ mc.contents[1] # {}
  /\ mc.outcomes[2] = "ok"
  /\ report.made
  /\ report.repos_with_backups = 1

\* -------------------------------------- properties of the issue export
\* the positions of the listing that hold issues, and pull requests
IssuePositions == {k \in 1..Len(mc.items) : ~mc.items[k].pr}
PullPositions == {k \in 1..Len(mc.items) : mc.items[k].pr}

\* the positions of the exported list that hold the record of item x
RecordsOf(x) ==
  {j \in 1..Len(mc.export.issues) :
     mc.export.issues[j] = [number |-> x.number, state |-> x.state]}

\* C22: export_issues emits exactly one record for each listed item without
\* a pull-request association and none for an item with one: pull requests
\* appear neither in the list nor in the counts.
C22_OnlyIssuesExported ==
  mc.op = "export" =>
    /\ \A k \in IssuePositions : Cardinality(RecordsOf(mc.items[k])) = 1
    /\ \A k \in PullPositions :
         \A j \in 1..Len(mc.export.issues) :
           mc.export.issues[j].number # mc.items[k].number
    /\ Len(mc.export.issues) = Cardinality(IssuePositions)
    /\ mc.export.total_issues = Cardinality(IssuePositions)
    /\ mc.export.open_issues + mc.export.closed_issues
         = Cardinality(IssuePositions)
    /\ mc.export.open_issues
         = Cardinality({k \in IssuePositions : mc.items[k].state = "open"})

C22_Witness ==
  /\ mc.op = "export"
  /\ Cardinality(PullPositions) = 2
  /\ \E k \in PullPositions : mc.items[k].state = "open"
  /\ Cardinality(IssuePositions) = 1
  /\ mc.items[2].pr = FALSE
  /\ Len(mc.export.issues) = 1

\* C23: the exported issue list is in ascending order of number whatever
\* the order of the listing, and holds the same records as were collected:
\* sorting drops none and duplicates none.
C23_SortedByNumber ==
  mc.op = "export" =>
    /\ \A j, k \in 1..Len(mc.export.issues) :
         j < k => mc.export.issues[j].number < mc.export.issues[k].number
    /\ \A k \in IssuePositions : Cardinality(RecordsOf(mc.items[k])) = 1
    /\ \A j \in 1..Len(mc.export.issues) :
         \E k \in IssuePositions :
           mc.export.issues[j] = [number |-> mc.items[k].number,
                                  state |-> mc.items[k].state]
    /\ Len(mc.export.issues) = Cardinality(IssuePositions)

C23_Witness ==
  /\ mc.op = "export"
  /\ Len(mc.items) = 3
  /\ PullPositions = {}
  /\ mc.items[1].number = 3
  /\ mc.items[2].number = 1
  /\ mc.items[3].number = 2
  /\ mc.export.issues[1].number = 1
  /\ mc.export.issues[3].number = 3

\* C24: in the metadata total_issues is the number of records and equals
\* open_issues + closed_issues, an issue counting as open when its state is
\* "open" and as closed otherwise.
C24_CountsAddUp ==
  mc.op = "export" =>
    /\ mc.export.total_issues = Len(mc.export.issues)
    /\ mc.export.total_issues
         = mc.export.open_issues + mc.export.closed_issues
    /\ mc.export.open_issues
         = Cardinality({j \in 1..Len(mc.export.issues) :
                          mc.export.issues[j].state = "open"})
    /\ mc.export.closed_issues
         = Cardinality({j \in 1..Len(mc.export.issues) :
                          mc.export.issues[j].state # "open"})

C24_Witness ==
  /\ mc.op = "export"
  /\ mc.export.total_issues = 3
  /\ mc.export.open_issues = 1
  /\ mc.export.closed_issues = 2

\* ------------------------------------------- properties of the matcher
\* p is an initial segment of n
StartsWith(n, p) == \E k \in 0..Len(n) : SubSeq(n, 1, k) = p

\* C13: matches(N) is true iff N is in the exact-include set or some
\* include pattern matches N at its start (not the whole name only, and
\* not anywhere in the name).
C13_MatchesIffExactOrPrefix ==
  mc.op = "matches" =>
    ( mc.result <=> ( \/ mc.name \in matcher.repositories
                      \/ \E p \in matcher.patterns : StartsWith(mc.name, p) ) )

C13_Witness ==
  /\ mc.op = "matches"
  /\ mc.result
  /\ mc.name = <<"q", "a">>
  /\ mc.name \notin matcher.repositories
  /\ mc.name \notin matcher.patterns

\* C14: is_excluded(N) is true iff N is in the exact-exclude set or some
\* exclude pattern matches N (at its start).
C14_ExcludedIffExactOrPattern ==
  mc.op = "is_excluded" =>
    ( mc.result <=> ( \/ mc.name \in matcher.exclude_repositories
                      \/ \E p \in matcher.exclude_patterns :
                           StartsWith(mc.name, p) ) )

C14_Witness ==
  /\ mc.op = "is_excluded"
  /\ mc.result
  /\ mc.name = <<"q", "a">>
  /\ mc.name \notin matcher.exclude_repositories

\* the positions of mc.all that filter_repositories has to keep
KeptPositions ==
  {k \in 1..Len(mc.all) :
     /\ ~(matcher.exclude_archived /\ mc.all[k].archived)
     /\ Matches(matcher, mc.all[k].name)
     /\ ~IsExcluded(matcher, mc.all[k].name)}

\* C15: filter_repositories returns exactly the repositories of the list
\* that are not archived (when exclude_archived is set), match and are not
\* excluded, each once and in the order of the list; an excluded name is
\* never returned, even when it is an exact include name.
C15_FilterExactlyKept ==
  mc.op = "filter" =>
    /\ Len(mc.matched) = Cardinality(KeptPositions)
    /\ Range(mc.matched) = {mc.all[k].name : k \in KeptPositions}
    /\ \A a, b \in 1..Len(mc.matched) :
         a < b => \E ka, kb \in KeptPositions :
                    /\ ka < kb
                    /\ mc.all[ka].name = mc.matched[a]
                    /\ mc.all[kb].name = mc.matched[b]
    /\ \A n \in Range(mc.matched) :
         /\ n \notin matcher.exclude_repositories
         /\ \A p \in matcher.exclude_patterns : ~StartsWith(n, p)

C15_Witness ==
  /\ mc.op = "filter"
  /\ Len(mc.all) = 4
  /\ matcher.exclude_archived
  /\ <<"a", "q">> \in matcher.repositories
  /\ <<"q", "b">> \in matcher.exclude_repositories
  /\ <<"q", "b">> \in {mc.all[k].name : k \in 1..Len(mc.all)}
  /\ mc.matched = << <<"q", "a">>, <<"q">> >>

\* C16: an exact include name is reported as not found iff no repository of
\* the organization's list as fetched has that name.
C16_NotFoundIffAbsent ==
  mc.op = "filter" =>
    mc.not_found = {n \in matcher.repositories :
                      \A k \in 1..Len(mc.all) : mc.all[k].name # n}

====
